---------------------------- MODULE Spec2Model ----------------------------
(***************************************************************************)
(* A model of fetch_ledger_transactions (src/src/main.rs): the two         *)
(* commands print_length and print_txs, the normalisation of a raw ledger  *)
(* record (Transaction::try_from) and the rendering of a row (tx_to_tsv).  *)
(*                                                                         *)
(* The ledger and its archives are the environment: every response is a    *)
(* nondeterministic choice, because the program checks nothing about what  *)
(* it receives.  stdout and stderr are one sequence of emissions, in       *)
(* program order.  A panic ends the process.                               *)
(***************************************************************************)
EXTENDS Integers, Sequences, FiniteSets, TLC

VARIABLES
    cmd,        \* Command: "GetLength" | "GetTransactions" | "Tsv" (rendering only)
    start,      \* Command::GetTransactions.start
    length,     \* Command::GetTransactions.length
    pc,         \* position of the single thread of control
    requests,   \* every query issued so far, in order
    inflight,   \* queries issued and not yet answered
    res,        \* the decoded primary response (GetTransactionsResponse)
    ai,         \* delegations of res.archived_transactions already iterated
    ares,       \* the decoded response of the current delegation (TransactionRange)
    ti,         \* records of the current list already consumed
    idx,        \* print_txs's local idx
    output,     \* emissions: [chan |-> "stdout" | "stderr", text |-> line]
    panic,      \* NoPanic, or what ended the process
    consumed,   \* history: per record consumed [src, pos, raw, idx]
    aresps,     \* history: the transaction list of every delegated response received
    nested,     \* history: a delegated response carried archive delegations of its own
    failed,     \* history: a call failed or its response could not be decoded
    tsv_raw,    \* rendering only: the raw record
    tsv_tx,     \* rendering only: what try_from made of it
    tsv_fields, \* rendering only: tx_to_tsv's vec res
    tsv_row     \* rendering only: tx_to_tsv's result

vars == <<cmd, start, length, pc, requests, inflight, res, ai, ares, ti, idx,
          output, panic, consumed, aresps, nested, failed,
          tsv_raw, tsv_tx, tsv_fields, tsv_row>>

----------------------------------------------------------------------------
(* Bounds of the model. *)

\* the most records the responses of one run carry, all together
MaxRecords == 3
\* the most archive delegations the primary response lists
MaxArchives == 2

(* Program constants. *)

\* [u8; 32]
SubaccountLen == 32
\* 1_000_000_000
NanosPerSec == 1000000000

SNS1_LEDGER_ID == "zfcdd-tqaaa-aaaaq-aaaga-cai"

\* Option<T>
None == [some |-> FALSE]
Some(v) == [some |-> TRUE, val |-> v]

\* the source tag of the live response's own slice in the history
LIVE == 0

----------------------------------------------------------------------------
(* Text. *)

Digit(d) == CASE d = 0 -> "0" [] d = 1 -> "1" [] d = 2 -> "2" [] d = 3 -> "3"
              [] d = 4 -> "4" [] d = 5 -> "5" [] d = 6 -> "6" [] d = 7 -> "7"
              [] d = 8 -> "8" [] d = 9 -> "9"

HexDigit(d) == CASE d < 10 -> Digit(d)
                 [] d = 10 -> "A" [] d = 11 -> "B" [] d = 12 -> "C"
                 [] d = 13 -> "D" [] d = 14 -> "E" [] d = 15 -> "F"

\* u64::to_string: the decimal digits
RECURSIVE U64ToString(_)
U64ToString(n) == IF n < 10 THEN Digit(n)
                  ELSE U64ToString(n \div 10) \o Digit(n % 10)

\* n in decimal, zero-padded to w digits
RECURSIVE Pad(_, _)
Pad(n, w) == IF w = 0 THEN "" ELSE Pad(n \div 10, w - 1) \o Digit(n % 10)

\* candid::Nat's Display as used by to_string and println!("{}"): the decimal
\* digits in groups of three from the right, the groups joined by '_'
RECURSIVE NatToString(_)
NatToString(n) == IF n < 1000 THEN U64ToString(n)
                  ELSE NatToString(n \div 1000) \o "_" \o Pad(n % 1000, 3)

\* format!("{:02X}", byte)
ByteToHex(b) == HexDigit(b \div 16) \o HexDigit(b % 16)

RECURSIVE BytesToHex(_)
BytesToHex(bytes) == IF bytes = <<>> THEN ""
                     ELSE ByteToHex(Head(bytes)) \o BytesToHex(Tail(bytes))

subaccount_to_str(subaccount) == BytesToHex(subaccount)

memo_to_str(memo) == BytesToHex(memo)

account_to_str(account) ==
    LET subaccount == IF account.subaccount.some
                      THEN subaccount_to_str(account.subaccount.val)
                      ELSE ""
    IN  account.owner \o " " \o subaccount

\* to_rfc3339_opts(SecondsFormat::Millis, false) of the instant `timestamp`
\* nanoseconds after the epoch, for an instant within the epoch's first minute
timestamp_to_utc_rtc3339(timestamp) ==
    LET secs  == timestamp \div NanosPerSec
        nsecs == timestamp % NanosPerSec
    IN  "1970-01-01T00:00:" \o Pad(secs, 2) \o "." \o Pad(nsecs \div 1000000, 3)
            \o "+00:00"

RECURSIVE Join(_, _)
Join(strs, sep) == IF strs = <<>> THEN ""
                   ELSE IF Len(strs) = 1 THEN strs[1]
                   ELSE strs[1] \o sep \o Join(Tail(strs), sep)

----------------------------------------------------------------------------
(* Transaction and its conversion from the wire record. *)

\* Result<Transaction, String>
Ok(v) == [tag |-> "Ok", val |-> v]
Err(e) == [tag |-> "Err", err |-> e]
\* Option::unwrap on None: no result, the thread panics
Panicked == [tag |-> "Panic"]

KnownKinds == {"mint", "burn", "transfer"}

\* a variation of Unwrap: an absent sub-record is an Err like an unknown kind
Unwrap_OrErr(sub, built) == IF sub.some THEN built ELSE Err("Missing sub-record")

\* Option::unwrap before the variant is built: `built` when the sub-record is
\* there, a panic when it is not
Unwrap(sub, built) == IF sub.some THEN built ELSE Panicked

try_from(tx) ==
    CASE tx.kind = "mint" ->
           Unwrap(tx.mint,
                  Ok([variant |-> "Mint", timestamp |-> tx.timestamp,
                      to |-> tx.mint.val.to, amount |-> tx.mint.val.amount,
                      memo |-> tx.mint.val.memo,
                      created_at_time |-> tx.mint.val.created_at_time]))
      [] tx.kind = "burn" ->
           Unwrap(tx.burn,
                  Ok([variant |-> "Burn", timestamp |-> tx.timestamp,
                      from |-> tx.burn.val.from, amount |-> tx.burn.val.amount,
                      memo |-> tx.burn.val.memo,
                      created_at_time |-> tx.burn.val.created_at_time]))
      [] tx.kind = "transfer" ->
           Unwrap(tx.transfer,
                  Ok([variant |-> "Transfer", timestamp |-> tx.timestamp,
                      from |-> tx.transfer.val.from, to |-> tx.transfer.val.to,
                      amount |-> tx.transfer.val.amount,
                      fee |-> tx.transfer.val.fee,
                      memo |-> tx.transfer.val.memo,
                      created_at_time |-> tx.transfer.val.created_at_time]))
      [] OTHER -> Err("Unknown kind " \o tx.kind)

get_kind(tx) == CASE tx.variant = "Burn" -> "burn"
                  [] tx.variant = "Mint" -> "mint"
                  [] tx.variant = "Transfer" -> "transfer"

get_timestamp(tx) == tx.timestamp

get_amount(tx) == tx.amount

get_memo(tx) == tx.memo

get_created_at_time(tx) == tx.created_at_time

get_from(tx) == CASE tx.variant = "Burn" -> account_to_str(tx.from)
                  [] tx.variant = "Mint" -> ""
                  [] tx.variant = "Transfer" -> account_to_str(tx.from)

get_to(tx) == CASE tx.variant = "Burn" -> ""
                [] tx.variant = "Mint" -> account_to_str(tx.to)
                [] tx.variant = "Transfer" -> account_to_str(tx.to)

get_fee(tx) == IF tx.variant = "Transfer"
               THEN IF tx.fee.some THEN NatToString(tx.fee.val) ELSE ""
               ELSE ""

\* tx_to_tsv's vec res, before the join
tsv_columns(i, tx) ==
    << U64ToString(i),
       get_kind(tx),
       timestamp_to_utc_rtc3339(get_timestamp(tx)),
       get_from(tx),
       get_to(tx),
       NatToString(get_amount(tx)),
       get_fee(tx),
       IF get_memo(tx).some THEN memo_to_str(get_memo(tx).val) ELSE "",
       IF get_created_at_time(tx).some
       THEN timestamp_to_utc_rtc3339(get_created_at_time(tx).val)
       ELSE "" >>

tx_to_tsv(i, tx) == Join(tsv_columns(i, tx), "|")


----------------------------------------------------------------------------
(* What the environment can send. *)

SeqsUpTo(S, n) == UNION {[1..k -> S] : k \in 0..n}

Owners == {"2vxsx-fae", "aaaaa-aa"}

Subaccounts == {None, Some([i \in 1..SubaccountLen |-> 0]),
                Some([i \in 1..SubaccountLen |-> IF i = SubaccountLen THEN 171 ELSE i])}

Acc1 == [owner |-> "2vxsx-fae", subaccount |-> None]
Acc2 == [owner |-> "aaaaa-aa", subaccount |-> Some([i \in 1..SubaccountLen |-> 0])]
Acc3 == [owner |-> "aaaaa-aa", subaccount |-> None]

Raw(kind, timestamp, mint, burn, transfer) ==
    [kind |-> kind, timestamp |-> timestamp,
     mint |-> mint, burn |-> burn, transfer |-> transfer]

RawTransfer == Raw("transfer", 1500000000, None, None,
                   Some([from |-> Acc1, to |-> Acc3, amount |-> 12345,
                         fee |-> Some(10), memo |-> Some(<<171, 1>>),
                         created_at_time |-> Some(1234567)]))

\* a kind the ledger may add and this client does not know
RawUnknown == Raw("approve", 7, None, None, None)

\* the discriminator names a kind whose sub-record is absent
RawNoSub == Raw("mint", 7, None, None, None)

RawPool == {RawTransfer, RawUnknown, RawNoSub}

\* the transaction lists of at most n records
TxLists(n) == SeqsUpTo(RawPool, n)

Delegation(canister_id, method, s, l) ==
    [callback |-> [canister_id |-> canister_id, method |-> method],
     start |-> s, length |-> l]

Delegations == {Delegation("qaa6y-5yaaa-aaaaa-aaafa-cai", "get_transactions", 0, 1),
                Delegation("qjdve-lqaaa-aaaaa-aaaeq-cai", "get_blocks", 1, 2)}

DelegationLists == SeqsUpTo(Delegations, MaxArchives)

LogLengths == {0, 999, 12345}

\* the GetTransactionsResponse values the ledger can put on the wire, with
\* log_length in L
PrimaryResponses(L) ==
    [log_length : L, transactions : TxLists(MaxRecords),
     archived_transactions : DelegationLists]

\* what an archive can put on the wire, n records at most: its transactions
\* and, should the protocol ever nest, archive delegations of its own
ArchiveResponses(n) ==
    [transactions : TxLists(n),
     archived_transactions : SeqsUpTo(Delegations, 1)]

TransportErrors == {"connection refused"}

\* the --start and --length of the transactions command
Args == {[start |-> 0, length |-> 1], [start |-> 5, length |-> 3]}

----------------------------------------------------------------------------
(* The pieces of print_length and print_txs. *)

NoPanic == [kind |-> "none", msg |-> ""]
NoResponse == [log_length |-> 0, transactions |-> <<>>, archived_transactions |-> <<>>]
NoRange == [transactions |-> <<>>]

Request(canister_id, method, s, l) ==
    [canister_id |-> canister_id, method |-> method, start |-> s, length |-> l]

LengthRequest == Request(SNS1_LEDGER_ID, "get_transactions", 0, 1)

PrimaryRequest(s, l) == Request(SNS1_LEDGER_ID, "get_transactions", s, l)

\* a variation of ArchiveRequest: the delegated query goes to the ledger itself
ArchiveRequest_ToLedger(d) ==
    Request(SNS1_LEDGER_ID, "get_transactions", d.start, d.length)

ArchiveRequest(d) ==
    Request(d.callback.canister_id, d.callback.method, d.start, d.length)

\* a variation of DelegationAt: the delegations are walked last to first
DelegationAt_Reversed(archived, i) == archived[Len(archived) + 1 - i]

\* the element the for loop over res.archived_transactions yields i-th
DelegationAt(archived, i) == archived[i]

CallPanic(canister_id, method, e) ==
    [kind |-> "call",
     msg |-> "Error while calling " \o canister_id \o "." \o method \o ": " \o e]
DecodePanic == [kind |-> "decode", msg |-> ""]
UnwrapPanic == [kind |-> "unwrap", msg |-> ""]

\* a variation of ArchiveCallFailedPc: the delegated call is tried again
ArchiveCallFailedPc_Retry == "archives"

\* where control is after a delegated call returned an error
ArchiveCallFailedPc == "panicked"

\* Decode!(&res, GetTransactionsResponse)
DecodeGetTransactionsResponse(wire) ==
    [log_length |-> wire.log_length, transactions |-> wire.transactions,
     archived_transactions |-> wire.archived_transactions]

\* Decode!(&res, TransactionRange): a record type with the one field
\* transactions; any other field of the value on the wire is skipped
DecodeTransactionRange(wire) == [transactions |-> wire.transactions]

\* a variation of InitialIdx: the rows are numbered from zero
InitialIdx_Zero(s) == 0

InitialIdx(s) == s

\* a variation of NextIdx: the increment is lost
NextIdx_Stuck(i) == i

NextIdx(i) == i + 1

Header == "block index|kind|datetime|from|to|amount|fee|memo|created_at_time"

Stdout(line) == [chan |-> "stdout", text |-> line]
Stderr(line) == [chan |-> "stderr", text |-> line]

\* a variation of Emission: the diagnostic goes to stdout like a row
Emission_AllOnStdout(i, r) ==
    IF r.tag = "Ok" THEN Stdout(tx_to_tsv(i, r.val))
    ELSE Stdout("Error on tx " \o U64ToString(i) \o ": " \o r.err)

\* the match on tx.try_into() for a conversion that returned
Emission(i, r) ==
    IF r.tag = "Ok" THEN Stdout(tx_to_tsv(i, r.val))
    ELSE Stderr("Error on tx " \o U64ToString(i) \o ": " \o r.err)

----------------------------------------------------------------------------
(* The state machine. *)

IdleTsv == /\ tsv_raw = RawUnknown /\ tsv_tx = Panicked
           /\ tsv_fields = <<>> /\ tsv_row = ""

Init ==
    /\ cmd \in {"GetLength", "GetTransactions"}
    /\ IF cmd = "GetTransactions"
       THEN \E a \in Args : start = a.start /\ length = a.length
       ELSE start = 0 /\ length = 0
    /\ pc = "start"
    /\ requests = <<>> /\ inflight = 0
    /\ res = NoResponse /\ ai = 0 /\ ares = NoRange /\ ti = 0 /\ idx = 0
    /\ output = <<>> /\ panic = NoPanic
    /\ consumed = <<>> /\ aresps = <<>> /\ nested = FALSE /\ failed = FALSE
    /\ IdleTsv

tsvVars == <<tsv_raw, tsv_tx, tsv_fields, tsv_row>>
argVars == <<cmd, start, length>>

\* history: the records of the responses received so far
RECURSIVE SumLen(_)
SumLen(lists) == IF lists = <<>> THEN 0
                 ELSE Len(Head(lists)) + SumLen(Tail(lists))

Received == Len(res.transactions) + SumLen(aresps)

(* print_length *)

IssueLengthQuery ==
    /\ cmd = "GetLength" /\ pc = "start"
    /\ requests' = Append(requests, LengthRequest)
    /\ inflight' = inflight + 1
    /\ pc' = "await_length"
    /\ UNCHANGED <<argVars, res, ai, ares, ti, idx, output, panic, consumed,
                   aresps, nested, failed, tsvVars>>

LengthCallFails ==
    /\ pc = "await_length"
    /\ \E e \in TransportErrors :
          panic' = CallPanic(SNS1_LEDGER_ID, "get_transactions", e)
    /\ inflight' = inflight - 1
    /\ failed' = TRUE
    /\ pc' = "panicked"
    /\ UNCHANGED <<argVars, requests, res, ai, ares, ti, idx, output, consumed,
                   aresps, nested, tsvVars>>

LengthDecodeFails ==
    /\ pc = "await_length"
    /\ panic' = DecodePanic
    /\ inflight' = inflight - 1
    /\ failed' = TRUE
    /\ pc' = "panicked"
    /\ UNCHANGED <<argVars, requests, res, ai, ares, ti, idx, output, consumed,
                   aresps, nested, tsvVars>>

ReceiveLength ==
    /\ pc = "await_length"
    /\ \E wire \in PrimaryResponses(LogLengths) :
          /\ res' = DecodeGetTransactionsResponse(wire)
          /\ output' = Append(output, Stdout(NatToString(res'.log_length)))
    /\ inflight' = inflight - 1
    /\ pc' = "done"
    /\ UNCHANGED <<argVars, requests, ai, ares, ti, idx, panic, consumed,
                   aresps, nested, failed, tsvVars>>

(* print_txs *)

IssuePrimaryQuery ==
    /\ cmd = "GetTransactions" /\ pc = "start"
    /\ requests' = Append(requests, PrimaryRequest(start, length))
    /\ inflight' = inflight + 1
    /\ pc' = "await_primary"
    /\ UNCHANGED <<argVars, res, ai, ares, ti, idx, output, panic, consumed,
                   aresps, nested, failed, tsvVars>>

PrimaryCallFails ==
    /\ pc = "await_primary"
    /\ \E e \in TransportErrors :
          panic' = CallPanic(SNS1_LEDGER_ID, "get_transactions", e)
    /\ inflight' = inflight - 1
    /\ failed' = TRUE
    /\ pc' = "panicked"
    /\ UNCHANGED <<argVars, requests, res, ai, ares, ti, idx, output, consumed,
                   aresps, nested, tsvVars>>

PrimaryDecodeFails ==
    /\ pc = "await_primary"
    /\ panic' = DecodePanic
    /\ inflight' = inflight - 1
    /\ failed' = TRUE
    /\ pc' = "panicked"
    /\ UNCHANGED <<argVars, requests, res, ai, ares, ti, idx, output, consumed,
                   aresps, nested, tsvVars>>

\* the response decodes: idx is set, the header is printed, the loop over the
\* delegations is entered
ReceivePrimary ==
    /\ pc = "await_primary"
    /\ \E wire \in PrimaryResponses({12345}) :
          res' = DecodeGetTransactionsResponse(wire)
    /\ inflight' = inflight - 1
    /\ idx' = InitialIdx(start)
    /\ output' = Append(output, Stdout(Header))
    /\ ai' = 0
    /\ pc' = "archives"
    /\ UNCHANGED <<argVars, requests, ares, ti, panic, consumed, aresps, nested,
                   failed, tsvVars>>

IssueArchiveQuery ==
    /\ pc = "archives" /\ ai < Len(res.archived_transactions)
    /\ requests' = Append(requests,
                          ArchiveRequest(DelegationAt(res.archived_transactions, ai + 1)))
    /\ inflight' = inflight + 1
    /\ pc' = "await_archive"
    /\ UNCHANGED <<argVars, res, ai, ares, ti, idx, output, panic, consumed,
                   aresps, nested, failed, tsvVars>>

ArchiveCallFails ==
    /\ pc = "await_archive"
    /\ \E e \in TransportErrors :
          LET d == DelegationAt(res.archived_transactions, ai + 1)
          IN  panic' = CallPanic(d.callback.canister_id, d.callback.method, e)
    /\ inflight' = inflight - 1
    /\ failed' = TRUE
    /\ pc' = ArchiveCallFailedPc
    /\ UNCHANGED <<argVars, requests, res, ai, ares, ti, idx, output, consumed,
                   aresps, nested, tsvVars>>

ArchiveDecodeFails ==
    /\ pc = "await_archive"
    /\ panic' = DecodePanic
    /\ inflight' = inflight - 1
    /\ failed' = TRUE
    /\ pc' = "panicked"
    /\ UNCHANGED <<argVars, requests, res, ai, ares, ti, idx, output, consumed,
                   aresps, nested, tsvVars>>

ReceiveArchive ==
    /\ pc = "await_archive"
    /\ \E wire \in ArchiveResponses(MaxRecords - Received) :
          /\ ares' = DecodeTransactionRange(wire)
          /\ aresps' = Append(aresps, wire.transactions)
          /\ nested' = (nested \/ wire.archived_transactions # <<>>)
    /\ inflight' = inflight - 1
    /\ ti' = 0
    /\ pc' = "archive_txs"
    /\ UNCHANGED <<argVars, requests, res, ai, idx, output, panic, consumed,
                   failed, tsvVars>>

\* one turn of a loop over `list`: tx.try_into(), the match, idx += 1
ConsumeTx(src, list) ==
    LET raw == list[ti + 1]
        r   == try_from(raw)
    IN  IF r.tag = "Panic"
        THEN /\ panic' = UnwrapPanic
             /\ pc' = "panicked"
             /\ UNCHANGED <<ti, idx, output, consumed>>
        ELSE /\ output' = Append(output, Emission(idx, r))
             /\ idx' = NextIdx(idx)
             /\ ti' = ti + 1
             /\ consumed' = Append(consumed, [src |-> src, pos |-> ti + 1,
                                              raw |-> raw, idx |-> idx])
             /\ UNCHANGED <<pc, panic>>

ConsumeArchiveTx ==
    /\ pc = "archive_txs" /\ ti < Len(ares.transactions)
    /\ ConsumeTx(ai + 1, ares.transactions)
    /\ UNCHANGED <<argVars, requests, inflight, res, ai, ares, aresps, nested,
                   failed, tsvVars>>

EndArchiveTxs ==
    /\ pc = "archive_txs" /\ ti = Len(ares.transactions)
    /\ ai' = ai + 1
    /\ pc' = "archives"
    /\ UNCHANGED <<argVars, requests, inflight, res, ares, ti, idx, output, panic,
                   consumed, aresps, nested, failed, tsvVars>>

EnterLiveTxs ==
    /\ pc = "archives" /\ ai = Len(res.archived_transactions)
    /\ ti' = 0
    /\ pc' = "live_txs"
    /\ UNCHANGED <<argVars, requests, inflight, res, ai, ares, idx, output, panic,
                   consumed, aresps, nested, failed, tsvVars>>

ConsumeLiveTx ==
    /\ pc = "live_txs" /\ ti < Len(res.transactions)
    /\ ConsumeTx(LIVE, res.transactions)
    /\ UNCHANGED <<argVars, requests, inflight, res, ai, ares, aresps, nested,
                   failed, tsvVars>>

EndLiveTxs ==
    /\ pc = "live_txs" /\ ti = Len(res.transactions)
    /\ pc' = "done"
    /\ UNCHANGED <<argVars, requests, inflight, res, ai, ares, ti, idx, output,
                   panic, consumed, aresps, nested, failed, tsvVars>>

Next ==
    \/ IssueLengthQuery \/ LengthCallFails \/ LengthDecodeFails \/ ReceiveLength
    \/ IssuePrimaryQuery \/ PrimaryCallFails \/ PrimaryDecodeFails \/ ReceivePrimary
    \/ IssueArchiveQuery \/ ArchiveCallFails \/ ArchiveDecodeFails \/ ReceiveArchive
    \/ ConsumeArchiveTx \/ EndArchiveTxs \/ EnterLiveTxs
    \/ ConsumeLiveTx \/ EndLiveTxs

Spec == Init /\ [][Next]_vars

----------------------------------------------------------------------------
(* Rendering alone: one raw record through try_from and tx_to_tsv. *)

Accounts == [owner : Owners, subaccount : Subaccounts]

Timestamps == {0, 1500000000}
Amounts == {5, 1000000}
Fees == {None, Some(0), Some(10), Some(10000)}
Memos == {None, Some(<<0, 171>>)}
CreatedAtTimes == {None, Some(1234567)}

TsvRaws ==
    {Raw("mint", t, Some(m), None, None) :
        t \in Timestamps,
        m \in [to : {Acc1, Acc2}, amount : Amounts, memo : Memos,
               created_at_time : CreatedAtTimes]}
    \cup
    {Raw("burn", t, None, Some(b), None) :
        t \in Timestamps,
        b \in [from : {Acc1, Acc2}, amount : Amounts, memo : Memos,
               created_at_time : CreatedAtTimes]}
    \cup
    {Raw("transfer", t, None, None, Some(x)) :
        t \in {0},
        x \in [from : Accounts, to : {Acc1, Acc2}, amount : {5}, fee : Fees,
               memo : Memos, created_at_time : {None}]}
    \cup {RawUnknown, RawNoSub}

InitTsv ==
    /\ cmd = "Tsv" /\ start = 0 /\ length = 0
    /\ pc = "tsv_start"
    /\ requests = <<>> /\ inflight = 0
    /\ res = NoResponse /\ ai = 0 /\ ares = NoRange /\ ti = 0
    /\ idx \in {0, 12345}
    /\ output = <<>> /\ panic = NoPanic
    /\ consumed = <<>> /\ aresps = <<>> /\ nested = FALSE /\ failed = FALSE
    /\ tsv_raw \in TsvRaws
    /\ tsv_tx = Panicked /\ tsv_fields = <<>> /\ tsv_row = ""

\* tx.try_into()
TsvNormalize ==
    /\ pc = "tsv_start"
    /\ tsv_tx' = try_from(tsv_raw)
    /\ pc' = "tsv_normalized"
    /\ UNCHANGED <<argVars, requests, inflight, res, ai, ares, ti, idx, output,
                   panic, consumed, aresps, nested, failed, tsv_raw, tsv_fields,
                   tsv_row>>

\* tx_to_tsv(idx, tx)
TsvRender ==
    /\ pc = "tsv_normalized" /\ tsv_tx.tag = "Ok"
    /\ tsv_fields' = tsv_columns(idx, tsv_tx.val)
    /\ tsv_row' = tx_to_tsv(idx, tsv_tx.val)
    /\ pc' = "tsv_done"
    /\ UNCHANGED <<argVars, requests, inflight, res, ai, ares, ti, idx, output,
                   panic, consumed, aresps, nested, failed, tsv_raw, tsv_tx>>

NextTsv == TsvNormalize \/ TsvRender

SpecTsv == InitTsv /\ [][NextTsv]_vars

----------------------------------------------------------------------------
(* What the claims are stated in. *)

Txs == cmd = "GetTransactions"

IsPrefix(a, b) == /\ Len(a) <= Len(b)
                  /\ \A i \in 1..Len(a) : a[i] = b[i]

Tagged(src, list) ==
    [i \in 1..Len(list) |-> [src |-> src, pos |-> i, raw |-> list[i]]]

\* the records of the delegated responses 1..j received, in order
RECURSIVE ArchivedUpTo(_)
ArchivedUpTo(j) == IF j = 0 THEN <<>>
                   ELSE ArchivedUpTo(j - 1) \o Tagged(j, aresps[j])

\* every record received so far in the order print_txs is to consume them: the
\* delegated responses in response order, then the live slice, which is due
\* only once every listed delegation has been answered
Expected ==
    ArchivedUpTo(Len(aresps))
        \o (IF Len(aresps) = Len(res.archived_transactions)
            THEN Tagged(LIVE, res.transactions) ELSE <<>>)

ConsumedTags ==
    [k \in 1..Len(consumed) |->
        [src |-> consumed[k].src, pos |-> consumed[k].pos, raw |-> consumed[k].raw]]

\* the kind is known and the sub-record of that name is absent
NoSubRecord(raw) ==
    \/ raw.kind = "mint" /\ ~raw.mint.some
    \/ raw.kind = "burn" /\ ~raw.burn.some
    \/ raw.kind = "transfer" /\ ~raw.transfer.some

\* the list the thread is iterating, and the record it is at
CursorList == IF ai < Len(res.archived_transactions) THEN ares.transactions
              ELSE res.transactions
AtRecord == ti < Len(CursorList)
CursorRaw == CursorList[ti + 1]

\* records received and not consumed
Remaining == Received - Len(consumed)

\* the primary response has been received and decoded
HeaderPrinted == Txs /\ pc \notin {"start", "await_primary"}
                     /\ ~(failed /\ Len(requests) = 1)

----------------------------------------------------------------------------
(* C1: the N-th record consumed, counting the records of all delegated     *)
(* responses and of the live slice together and counting the ones          *)
(* normalisation rejects, is reported under sequence index start + N: its  *)
(* line (row or diagnostic) is the one for that index.                     *)
C1_IndexIsStartPlusN ==
    Txs =>
        \A k \in 1..Len(consumed) :
            /\ consumed[k].idx = start + (k - 1)
            /\ Len(output) >= k + 1
            /\ output[k + 1] = Emission(start + (k - 1), try_from(consumed[k].raw))

C1_Witness ==
    /\ Txs /\ start = 5 /\ pc = "done"
    /\ Len(consumed) = 3
    /\ consumed[1].src = 1 /\ consumed[2].src = 2 /\ consumed[3].src = LIVE
    /\ consumed[2].raw = RawUnknown
    /\ consumed[3].idx = 7

(* C2: the records of the delegated responses are consumed before any      *)
(* record of the live slice, delegation by delegation in the order the     *)
(* live response listed them: what has been consumed is always a prefix    *)
(* of "response of delegation 1, response of delegation 2, ..., live       *)
(* slice", the j-th response being the answer to the j-th listed           *)
(* delegation, and a run that ends normally has consumed all of it.        *)
C2_DelegationsBeforeLive ==
    Txs =>
        /\ IsPrefix(ConsumedTags, Expected)
        /\ \A k \in 1..Len(consumed), l \in 1..Len(consumed) :
              k < l => /\ consumed[k].src = LIVE => consumed[l].src = LIVE
                       /\ consumed[l].src # LIVE => consumed[k].src <= consumed[l].src
        /\ \A j \in 1..Len(aresps) :
              /\ Len(requests) >= j + 1
              /\ requests[j + 1] = ArchiveRequest(res.archived_transactions[j])
        /\ pc = "done" => ConsumedTags = Expected

C2_Witness ==
    /\ Txs /\ pc = "done"
    /\ Len(res.archived_transactions) = 2
    /\ res.archived_transactions[1] # res.archived_transactions[2]
    /\ Len(consumed) = 3
    /\ consumed[1].src = 1 /\ consumed[2].src = 2 /\ consumed[3].src = LIVE

(* C3: a record whose kind is none of mint, burn, transfer gets exactly    *)
(* one emission, a diagnostic on stderr naming its sequence index and the  *)
(* kind, and no row; the records after it keep the index they would have   *)
(* had; it never ends the run, and a run that ends normally has consumed   *)
(* every record received.                                                  *)
C3_UnknownKindIsOneDiagnostic ==
    Txs =>
        /\ HeaderPrinted => Len(output) = 1 + Len(consumed)
        /\ \A k \in 1..Len(consumed) :
              consumed[k].raw.kind \notin KnownKinds =>
                 /\ output[k + 1] =
                       [chan |-> "stderr",
                        text |-> "Error on tx " \o U64ToString(start + (k - 1))
                                    \o ": Unknown kind " \o consumed[k].raw.kind]
                 /\ \A l \in (k + 1)..Len(consumed) :
                       consumed[l].idx = start + (l - 1)
        /\ panic.kind = "unwrap" => CursorRaw.kind \in KnownKinds
        /\ pc = "done" => Remaining = 0

C3_Witness ==
    /\ Txs /\ pc = "done"
    /\ Len(consumed) = 3
    /\ consumed[1].raw = RawUnknown /\ consumed[1].src = 1
    /\ consumed[2].raw = RawTransfer
    /\ consumed[3].raw = RawTransfer /\ consumed[3].src = LIVE
    /\ output[2].chan = "stderr" /\ output[3].chan = "stdout"

(* C4, as the claim states it: a record of a known kind whose sub-record   *)
(* is absent is fatal to that record only; print_txs goes on with the      *)
(* remaining records.  So no run is ever ended by such a record.           *)
C4_Original ==
    ~(pc = "panicked" /\ panic.kind = "unwrap" /\ NoSubRecord(CursorRaw))

(* C4, amended: a record of a known kind whose sub-record is absent is     *)
(* fatal to the whole run.  No row and no diagnostic is ever emitted for   *)
(* such a record; the run ends at it with a panic, after which nothing is  *)
(* processed or requested; and no run that received one ends normally.     *)
C4_MissingSubRecordEndsRun ==
    Txs =>
        /\ \A k \in 1..Len(consumed) : ~NoSubRecord(consumed[k].raw)
        /\ panic.kind = "unwrap" =>
              /\ pc = "panicked"
              /\ AtRecord /\ NoSubRecord(CursorRaw)
              /\ Len(output) = 1 + Len(consumed)
              /\ ~ENABLED Next
        /\ pc = "done" =>
              /\ \A i \in 1..Len(res.transactions) : ~NoSubRecord(res.transactions[i])
              /\ \A j \in 1..Len(aresps) :
                    \A i \in 1..Len(aresps[j]) : ~NoSubRecord(aresps[j][i])

C4_Witness ==
    /\ Txs /\ pc = "panicked" /\ panic.kind = "unwrap"
    /\ CursorRaw = RawNoSub
    /\ Len(consumed) = 1
    /\ Remaining = 2
    /\ ai < Len(res.archived_transactions)
    /\ res.transactions # <<>>

(* C5: when the primary call or a delegated call fails (the transport      *)
(* fails or the response does not decode), the operation ends there: the   *)
(* process has panicked, no request is outstanding, no step is left (no    *)
(* further request, row or diagnostic), and after a failed delegated call  *)
(* nothing of the live slice has been printed.                             *)
C5_FailureAborts ==
    failed =>
        /\ pc = "panicked"
        /\ panic.kind \in {"call", "decode"}
        /\ inflight = 0
        /\ ~ENABLED Next
        /\ \A k \in 1..Len(consumed) : consumed[k].src # LIVE
        /\ Len(requests) = 1 => output = <<>>
        /\ Len(requests) > 1 => Len(output) = 1 + Len(consumed)

C5_Witness ==
    /\ Txs /\ failed /\ panic.kind = "call"
    /\ Len(requests) = 3
    /\ Len(consumed) = 1
    /\ res.transactions # <<>>

(* C6, as the claim states it: a delegated response that itself lists      *)
(* archive delegations is a hard error, so no run that received one ends   *)
(* normally.                                                               *)
C6_Original == ~(nested /\ pc = "done")

(* C7, as the claim states it: whatever the service returns, at most       *)
(* `length` records are consumed and every index lies in                   *)
(* [start, start + length).                                                *)
C7_Original ==
    Txs =>
        /\ Len(consumed) <= length
        /\ \A k \in 1..Len(consumed) :
              start <= consumed[k].idx /\ consumed[k].idx < start + length

(* C7, amended: provided the responses received carry at most `length`     *)
(* records in total, at most `length` records are consumed and every       *)
(* index lies in [start, start + length); a run over fewer records than    *)
(* `length` ends normally, with every record received consumed.            *)
C7_WithinLengthIfServiceIs ==
    Txs =>
        /\ Received <= length =>
              /\ Len(consumed) <= length
              /\ \A k \in 1..Len(consumed) :
                    start <= consumed[k].idx /\ consumed[k].idx < start + length
        /\ Len(consumed) <= Received
        /\ pc = "done" => /\ Len(consumed) = Received
                          /\ panic.kind = "none"

C7_Witness ==
    /\ Txs /\ pc = "done" /\ length = 3 /\ start = 5
    /\ Received = 2 /\ Len(consumed) = 2
    /\ consumed[2].idx = 6

(* C8, as the claim states it: the requests go out one at a time, the      *)
(* primary one first and then one per delegation in response order, each   *)
(* only after the records of the previous response have all been consumed. *)
C8_Original ==
    Txs =>
        /\ inflight <= 1
        /\ pc = "await_archive" => Remaining = 0
        /\ pc = "done" => Len(requests) = 1 + Len(res.archived_transactions)

(* C8, amended: the requests go out one at a time: first {start, length}   *)
(* to the ledger's get_transactions, then one per delegation in response   *)
(* order, to the delegation's canister and method with its own start and   *)
(* length.  A delegated request is issued only after the records of every  *)
(* delegated response before it have all been consumed, while the records  *)
(* of the primary response's own slice are still unconsumed; at most one   *)
(* request is outstanding, and a run that ends normally has issued         *)
(* 1 + the number of delegations.                                          *)
C8_RequestsOneAtATime ==
    Txs =>
        /\ inflight \in {0, 1}
        /\ inflight = 1 <=> pc \in {"await_primary", "await_archive"}
        /\ Len(requests) >= 1 =>
              requests[1] = [canister_id |-> SNS1_LEDGER_ID,
                             method |-> "get_transactions",
                             start |-> start, length |-> length]
        /\ Len(requests) <= 1 + Len(res.archived_transactions)
        /\ \A j \in 2..Len(requests) :
              LET d == res.archived_transactions[j - 1]
              IN  requests[j] = [canister_id |-> d.callback.canister_id,
                                 method |-> d.callback.method,
                                 start |-> d.start, length |-> d.length]
        /\ pc = "await_archive" =>
              /\ Len(requests) = Len(aresps) + 2
              /\ Len(consumed) = SumLen(aresps)
              /\ Remaining = Len(res.transactions)
        /\ pc = "done" => Len(requests) = 1 + Len(res.archived_transactions)

C8_Witness ==
    /\ Txs /\ pc = "await_archive"
    /\ Len(requests) = 3
    /\ requests[2] # requests[3]
    /\ Len(consumed) = 1
    /\ Len(res.transactions) = 2

(* C9, as the claim states it: print_length issues the one request         *)
(* {start: 0, length: 1} to the ledger, follows no delegation, and prints  *)
(* one line, the decimal digits of log_length (12345 for 12345).           *)
C9_Original ==
    (cmd = "GetLength" /\ pc = "done") =>
        /\ requests = <<[canister_id |-> SNS1_LEDGER_ID,
                         method |-> "get_transactions",
                         start |-> 0, length |-> 1]>>
        /\ output = <<[chan |-> "stdout", text |-> U64ToString(res.log_length)]>>

(* C9, the part of it that holds: one request, no delegation followed,    *)
(* and one line, log_length as candid's Nat displays it.                   *)
C9_OneRequestOneLine ==
    (cmd = "GetLength" /\ pc = "done") =>
        /\ requests = <<[canister_id |-> SNS1_LEDGER_ID,
                         method |-> "get_transactions",
                         start |-> 0, length |-> 1]>>
        /\ output = <<[chan |-> "stdout", text |-> NatToString(res.log_length)]>>
        /\ inflight = 0 /\ consumed = <<>>

C9_Witness ==
    /\ cmd = "GetLength" /\ pc = "done"
    /\ res.log_length = 12345
    /\ res.archived_transactions # <<>>
    /\ output = <<[chan |-> "stdout", text |-> "12_345"]>>

(* C10, as the claim states it: in the row of a normalised transaction,    *)
(* kind is the raw record's kind; from is empty for Mint and the rendered  *)
(* source account otherwise; to is empty for Burn and the rendered         *)
(* destination account otherwise; fee is empty unless the variant is       *)
(* Transfer with a fee, and then the decimal digits of the fee.            *)
C10_Original ==
    pc = "tsv_done" =>
        LET kind == tsv_raw.kind
            sub  == CASE kind = "mint" -> tsv_raw.mint.val
                      [] kind = "burn" -> tsv_raw.burn.val
                      [] kind = "transfer" -> tsv_raw.transfer.val
        IN  /\ Len(tsv_fields) = 9
            /\ tsv_row = Join(tsv_fields, "|")
            /\ tsv_fields[2] = kind
            /\ tsv_fields[4] = (IF kind = "mint" THEN "" ELSE account_to_str(sub.from))
            /\ tsv_fields[5] = (IF kind = "burn" THEN "" ELSE account_to_str(sub.to))
            /\ tsv_fields[7] = (IF kind = "transfer" /\ sub.fee.some
                                THEN U64ToString(sub.fee.val) ELSE "")

(* C10, the part of it that holds: the kind, from and to columns, and a    *)
(* fee column that is empty unless the variant is Transfer with a fee.     *)
C10_KindFromTo ==
    pc = "tsv_done" =>
        LET kind == tsv_raw.kind
            sub  == CASE kind = "mint" -> tsv_raw.mint.val
                      [] kind = "burn" -> tsv_raw.burn.val
                      [] kind = "transfer" -> tsv_raw.transfer.val
        IN  /\ Len(tsv_fields) = 9
            /\ tsv_row = Join(tsv_fields, "|")
            /\ tsv_fields[2] = kind
            /\ tsv_fields[4] = (IF kind = "mint" THEN "" ELSE account_to_str(sub.from))
            /\ tsv_fields[5] = (IF kind = "burn" THEN "" ELSE account_to_str(sub.to))
            /\ (tsv_fields[7] = "") <=> ~(kind = "transfer" /\ sub.fee.some)
            /\ (kind = "transfer" /\ sub.fee.some /\ sub.fee.val < 1000)
                   => tsv_fields[7] = U64ToString(sub.fee.val)

C10_Witness ==
    /\ pc = "tsv_done" /\ tsv_raw.kind = "transfer"
    /\ tsv_fields[4] = "aaaaa-aa " \o BytesToHex([i \in 1..SubaccountLen |-> 0])
    /\ tsv_fields[7] = "10_000"

=============================================================================
